---- MODULE Spec2Model ----
(***************************************************************************)
(* A model of sha256.py: the 32-bit primitives, the padding constructor    *)
(* perform_padding, the compression function compute_hash working on the   *)
(* module-level list H, and the block driver main.                         *)
(*                                                                         *)
(* Python integers are unbounded, and the code keeps them to 32 bits only  *)
(* where it writes "% 2 ** 32".  The model therefore does not use machine  *)
(* words: an integer is a sequence of 16-bit limbs, least significant      *)
(* first, in two's complement, whose last limb is the sign (0 or 65535)    *)
(* and stands for itself repeated for ever.  <<5, 0>> is 5, <<65535>> is   *)
(* -1, <<0, 1, 0>> is 65536.  A mask that the code leaves out is then a    *)
(* value that is visibly out of range.  Bytes, lengths of byte sequences   *)
(* and loop indices are small and are plain numbers.                       *)
(***************************************************************************)
EXTENDS Integers, Sequences, FiniteSets

VARIABLES
  H,          \* the module-level list H (sha256.py:52), updated in place
  pc,         \* where the running computation is
  arg,        \* what it was given
  loc,        \* its local variables
  out,        \* what it has written and returned
  calls,      \* the blocks it has passed to compute_hash, in order
  th          \* a second computation of the same process, when there is one

vars == <<H, pc, arg, loc, out, calls, th>>

----------------------------------------------------------------------------
(* Python integers                                                         *)

Max(m, n) == IF m >= n THEN m ELSE n

\* the function f with domain 1..n, as an explicit sequence
SeqOf(f) == SubSeq(f, 1, Len(f))

LimbBits == 2 * 8
Base == 2 ^ LimbBits

\* limb i (from 1) of the integer x, sign-extended
Limb(x, i) == x[IF i < Len(x) THEN i ELSE Len(x)]

IsNeg(x) == x[Len(x)] # 0

\* p & q for p, q in 0..15, from the bits
NibbleAnd ==
  SeqOf([i \in 1..16 |->
    SeqOf([j \in 1..16 |->
      LET p == i - 1
          q == j - 1
      IN  (p % 2) * (q % 2)
          + 2 * ((p \div 2) % 2) * ((q \div 2) % 2)
          + 4 * ((p \div 4) % 2) * ((q \div 4) % 2)
          + 8 * (p \div 8) * (q \div 8)])])

\* p & q, p | q, p ^ q for limbs
limbAnd(p, q) ==
  NibbleAnd[(p % 16) + 1][(q % 16) + 1]
  + 16 * NibbleAnd[((p \div 16) % 16) + 1][((q \div 16) % 16) + 1]
  + 256 * NibbleAnd[((p \div 256) % 16) + 1][((q \div 256) % 16) + 1]
  + 4096 * NibbleAnd[(p \div 4096) + 1][(q \div 4096) + 1]
limbOr(p, q) == p + q - limbAnd(p, q)
limbXor(p, q) == p + q - 2 * limbAnd(p, q)

\* x & y
pyAnd(x, y) ==
  SeqOf([i \in 1..Max(Len(x), Len(y)) |-> limbAnd(Limb(x, i), Limb(y, i))])

\* x | y
pyOr(x, y) ==
  SeqOf([i \in 1..Max(Len(x), Len(y)) |-> limbOr(Limb(x, i), Limb(y, i))])

\* x ^ y
pyXor(x, y) ==
  SeqOf([i \in 1..Max(Len(x), Len(y)) |-> limbXor(Limb(x, i), Limb(y, i))])

\* ~x
pyInvert(x) == SeqOf([i \in 1..Len(x) |-> Base - 1 - x[i]])

\* x >> n (arithmetic: floor division by 2 ** n)
pyRshift(x, n) ==
  LET q == n \div LimbBits
      r == n % LimbBits
  IN  SeqOf([j \in 1..Max(1, Len(x) - q) |->
        (Limb(x, j + q) \div (2 ^ r))
        + (Limb(x, j + q + 1) % (2 ^ r)) * (2 ^ (LimbBits - r))])

\* x << n
pyLshift(x, n) ==
  LET q == n \div LimbBits
      r == n % LimbBits
  IN  SeqOf([j \in 1..(Len(x) + q + 1) |->
        IF j <= q THEN 0
        ELSE (Limb(x, j - q) % (2 ^ (LimbBits - r))) * (2 ^ r)
             + (IF j - q = 1 THEN 0
                ELSE Limb(x, j - q - 1) \div (2 ^ (LimbBits - r)))])

RECURSIVE addLimbs(_, _, _, _, _)
addLimbs(x, y, i, carry, w) ==
  IF i > w THEN <<>>
  ELSE LET s == Limb(x, i) + Limb(y, i) + carry
       IN  <<s % Base>> \o addLimbs(x, y, i + 1, s \div Base, w)

\* x + y, exact: one limb wider than the wider operand
pyAdd(x, y) == addLimbs(x, y, 1, 0, Max(Len(x), Len(y)) + 1)

\* x - y
pySub(x, y) == pyAdd(pyAdd(x, pyInvert(y)), <<1, 0>>)

\* x % 2 ** w: never negative, as Python's % with a positive modulus
pyModPow2(x, w) ==
  LET q == w \div LimbBits
      r == w % LimbBits
      n == IF r = 0 THEN q ELSE q + 1
  IN  SeqOf([i \in 1..(n + 1) |->
        IF i <= q THEN Limb(x, i)
        ELSE IF i = n THEN Limb(x, i) % (2 ^ r)
        ELSE 0])

\* x == 0
pyIsZero(x) == \A i \in 1..Len(x) : x[i] = 0

\* x == y
pyEq(x, y) == \A i \in 1..Max(Len(x), Len(y)) : Limb(x, i) = Limb(y, i)

\* x >= 2 ** w
pyGePow2(x, w) == ~IsNeg(x) /\ ~pyIsZero(pyRshift(x, w))

\* 0 <= x < 2 ** w
InRange(x, w) == ~IsNeg(x) /\ pyIsZero(pyRshift(x, w))

\* the shortest sequence of limbs that stands for x
RECURSIVE pyNorm(_)
pyNorm(x) ==
  IF Len(x) >= 2 /\ x[Len(x) - 1] = x[Len(x)]
  THEN pyNorm(SubSeq(x, 1, Len(x) - 1))
  ELSE x

\* a small natural number as a Python integer, and back
RECURSIVE pyInt(_)
pyInt(n) == IF n = 0 THEN <<0>> ELSE <<n % Base>> \o pyInt(n \div Base)

RECURSIVE limbsNat(_, _)
limbsNat(x, i) == IF i > Len(x) THEN 0 ELSE x[i] + Base * limbsNat(x, i + 1)

pyNat(x) == limbsNat(x, 1)

\* the literal 0xd1d2...d8 of the source, from its eight hexadecimal digits
hexWord(ds) ==
  <<ds[5] * 4096 + ds[6] * 256 + ds[7] * 16 + ds[8],
    ds[1] * 4096 + ds[2] * 256 + ds[3] * 16 + ds[4],
    0>>

\* int.from_bytes(bs, byteorder = 'big', signed = False)
int_from_bytes(bs) ==
  LET n == Len(bs)
      byteAt(k) == IF k >= 1 THEN bs[k] ELSE 0
  IN  SeqOf([i \in 1..(((n + 1) \div 2) + 1) |->
        IF i > (n + 1) \div 2 THEN 0
        ELSE byteAt(n - 2 * (i - 1)) + 256 * byteAt(n - 2 * (i - 1) - 1)])

\* what a call gives back: a value, or the exception it raises
Return(v) == [exc |-> "", val |-> v]
Raise(e) == [exc |-> e, val |-> <<>>]

\* x.to_bytes(n, byteorder = 'big', signed = False); OverflowError when x is
\* negative or does not fit
int_to_bytes(x, n) ==
  IF ~InRange(x, 8 * n) THEN Raise("OverflowError")
  ELSE Return(SeqOf([j \in 1..n |->
         LET k == n - j
             limb == Limb(x, (k \div 2) + 1)
         IN  IF k % 2 = 0 THEN limb % 256 ELSE limb \div 256]))

----------------------------------------------------------------------------
(* sha256.py:9-36: the block size and the primitives                       *)

BLOCK_SIZE_BYTE == 64

\* line 17 with the reduction % 2 ** 32 of the left shift dropped
rotr_unmasked(x, n) == pyOr(pyRshift(x, n), pyLshift(x, 32 - n))

rotr(x, n) == pyOr(pyRshift(x, n), pyModPow2(pyLshift(x, 32 - n), 32))

ch(x, y, z) == pyXor(pyAnd(x, y), pyAnd(pyInvert(x), z))

maj(x, y, z) == pyXor(pyXor(pyAnd(x, y), pyAnd(x, z)), pyAnd(y, z))

bsig0(x) == pyXor(pyXor(rotr(x, 2), rotr(x, 13)), rotr(x, 22))

bsig1(x) == pyXor(pyXor(rotr(x, 6), rotr(x, 11)), rotr(x, 25))

\* line 33 with the shift x >> 3 taken for a third rotation
ssig0_rotated(x) == pyXor(pyXor(rotr(x, 7), rotr(x, 18)), rotr(x, 3))

ssig0(x) == pyXor(pyXor(rotr(x, 7), rotr(x, 18)), pyRshift(x, 3))

ssig1(x) == pyXor(pyXor(rotr(x, 17), rotr(x, 19)), pyRshift(x, 10))

----------------------------------------------------------------------------
(* sha256.py:40-57: the round constants and the initial value of H         *)

K ==
  <<
    hexWord(<< 4, 2, 8,10, 2,15, 9, 8>>),   \* 0x428a2f98
    hexWord(<< 7, 1, 3, 7, 4, 4, 9, 1>>),   \* 0x71374491
    hexWord(<<11, 5,12, 0,15,11,12,15>>),   \* 0xb5c0fbcf
    hexWord(<<14, 9,11, 5,13,11,10, 5>>),   \* 0xe9b5dba5
    hexWord(<< 3, 9, 5, 6,12, 2, 5,11>>),   \* 0x3956c25b
    hexWord(<< 5, 9,15, 1, 1, 1,15, 1>>),   \* 0x59f111f1
    hexWord(<< 9, 2, 3,15, 8, 2,10, 4>>),   \* 0x923f82a4
    hexWord(<<10,11, 1,12, 5,14,13, 5>>),   \* 0xab1c5ed5
    hexWord(<<13, 8, 0, 7,10,10, 9, 8>>),   \* 0xd807aa98
    hexWord(<< 1, 2, 8, 3, 5,11, 0, 1>>),   \* 0x12835b01
    hexWord(<< 2, 4, 3, 1, 8, 5,11,14>>),   \* 0x243185be
    hexWord(<< 5, 5, 0,12, 7,13,12, 3>>),   \* 0x550c7dc3
    hexWord(<< 7, 2,11,14, 5,13, 7, 4>>),   \* 0x72be5d74
    hexWord(<< 8, 0,13,14,11, 1,15,14>>),   \* 0x80deb1fe
    hexWord(<< 9,11,13,12, 0, 6,10, 7>>),   \* 0x9bdc06a7
    hexWord(<<12, 1, 9,11,15, 1, 7, 4>>),   \* 0xc19bf174
    hexWord(<<14, 4, 9,11, 6, 9,12, 1>>),   \* 0xe49b69c1
    hexWord(<<14,15,11,14, 4, 7, 8, 6>>),   \* 0xefbe4786
    hexWord(<< 0,15,12, 1, 9,13,12, 6>>),   \* 0x0fc19dc6
    hexWord(<< 2, 4, 0,12,10, 1,12,12>>),   \* 0x240ca1cc
    hexWord(<< 2,13,14, 9, 2,12, 6,15>>),   \* 0x2de92c6f
    hexWord(<< 4,10, 7, 4, 8, 4,10,10>>),   \* 0x4a7484aa
    hexWord(<< 5,12,11, 0,10, 9,13,12>>),   \* 0x5cb0a9dc
    hexWord(<< 7, 6,15, 9, 8, 8,13,10>>),   \* 0x76f988da
    hexWord(<< 9, 8, 3,14, 5, 1, 5, 2>>),   \* 0x983e5152
    hexWord(<<10, 8, 3, 1,12, 6, 6,13>>),   \* 0xa831c66d
    hexWord(<<11, 0, 0, 3, 2, 7,12, 8>>),   \* 0xb00327c8
    hexWord(<<11,15, 5, 9, 7,15,12, 7>>),   \* 0xbf597fc7
    hexWord(<<12, 6,14, 0, 0,11,15, 3>>),   \* 0xc6e00bf3
    hexWord(<<13, 5,10, 7, 9, 1, 4, 7>>),   \* 0xd5a79147
    hexWord(<< 0, 6,12,10, 6, 3, 5, 1>>),   \* 0x06ca6351
    hexWord(<< 1, 4, 2, 9, 2, 9, 6, 7>>),   \* 0x14292967
    hexWord(<< 2, 7,11, 7, 0,10, 8, 5>>),   \* 0x27b70a85
    hexWord(<< 2,14, 1,11, 2, 1, 3, 8>>),   \* 0x2e1b2138
    hexWord(<< 4,13, 2,12, 6,13,15,12>>),   \* 0x4d2c6dfc
    hexWord(<< 5, 3, 3, 8, 0,13, 1, 3>>),   \* 0x53380d13
    hexWord(<< 6, 5, 0,10, 7, 3, 5, 4>>),   \* 0x650a7354
    hexWord(<< 7, 6, 6,10, 0,10,11,11>>),   \* 0x766a0abb
    hexWord(<< 8, 1,12, 2,12, 9, 2,14>>),   \* 0x81c2c92e
    hexWord(<< 9, 2, 7, 2, 2,12, 8, 5>>),   \* 0x92722c85
    hexWord(<<10, 2,11,15,14, 8,10, 1>>),   \* 0xa2bfe8a1
    hexWord(<<10, 8, 1,10, 6, 6, 4,11>>),   \* 0xa81a664b
    hexWord(<<12, 2, 4,11, 8,11, 7, 0>>),   \* 0xc24b8b70
    hexWord(<<12, 7, 6,12, 5, 1,10, 3>>),   \* 0xc76c51a3
    hexWord(<<13, 1, 9, 2,14, 8, 1, 9>>),   \* 0xd192e819
    hexWord(<<13, 6, 9, 9, 0, 6, 2, 4>>),   \* 0xd6990624
    hexWord(<<15, 4, 0,14, 3, 5, 8, 5>>),   \* 0xf40e3585
    hexWord(<< 1, 0, 6,10,10, 0, 7, 0>>),   \* 0x106aa070
    hexWord(<< 1, 9,10, 4,12, 1, 1, 6>>),   \* 0x19a4c116
    hexWord(<< 1,14, 3, 7, 6,12, 0, 8>>),   \* 0x1e376c08
    hexWord(<< 2, 7, 4, 8, 7, 7, 4,12>>),   \* 0x2748774c
    hexWord(<< 3, 4,11, 0,11,12,11, 5>>),   \* 0x34b0bcb5
    hexWord(<< 3, 9, 1,12, 0,12,11, 3>>),   \* 0x391c0cb3
    hexWord(<< 4,14,13, 8,10,10, 4,10>>),   \* 0x4ed8aa4a
    hexWord(<< 5,11, 9,12,12,10, 4,15>>),   \* 0x5b9cca4f
    hexWord(<< 6, 8, 2,14, 6,15,15, 3>>),   \* 0x682e6ff3
    hexWord(<< 7, 4, 8,15, 8, 2,14,14>>),   \* 0x748f82ee
    hexWord(<< 7, 8,10, 5, 6, 3, 6,15>>),   \* 0x78a5636f
    hexWord(<< 8, 4,12, 8, 7, 8, 1, 4>>),   \* 0x84c87814
    hexWord(<< 8,12,12, 7, 0, 2, 0, 8>>),   \* 0x8cc70208
    hexWord(<< 9, 0,11,14,15,15,15,10>>),   \* 0x90befffa
    hexWord(<<10, 4, 5, 0, 6,12,14,11>>),   \* 0xa4506ceb
    hexWord(<<11,14,15, 9,10, 3,15, 7>>),   \* 0xbef9a3f7
    hexWord(<<12, 6, 7, 1, 7, 8,15, 2>>)    \* 0xc67178f2
  >>

H_init ==
  <<
    hexWord(<< 6,10, 0, 9,14, 6, 6, 7>>),   \* 0x6a09e667
    hexWord(<<11,11, 6, 7,10,14, 8, 5>>),   \* 0xbb67ae85
    hexWord(<< 3,12, 6,14,15, 3, 7, 2>>),   \* 0x3c6ef372
    hexWord(<<10, 5, 4,15,15, 5, 3,10>>),   \* 0xa54ff53a
    hexWord(<< 5, 1, 0,14, 5, 2, 7,15>>),   \* 0x510e527f
    hexWord(<< 9,11, 0, 5, 6, 8, 8,12>>),   \* 0x9b05688c
    hexWord(<< 1,15, 8, 3,13, 9,10,11>>),   \* 0x1f83d9ab
    hexWord(<< 5,11,14, 0,12,13, 1, 9>>)    \* 0x5be0cd19
  >>


----------------------------------------------------------------------------
(* sha256.py:60-76: perform_padding                                        *)

Zeros(n) == SeqOf([i \in 1..n |-> 0])

\* perform_padding with 448 for 440 (line 70): the byte of the marker
\* counted twice
perform_padding_448(chunck, input_size) ==
  IF ~(Len(chunck) <= 64) THEN Raise("AssertionError")
  ELSE IF ~(IsNeg(input_size) \/ InRange(input_size, 64)) THEN Raise("AssertionError")
  ELSE LET l == input_size
           k == pyModPow2(pySub(pyInt(448), l), 9)
           length == int_to_bytes(l, 8)
       IN  IF length.exc # "" THEN length
           ELSE Return(chunck \o <<128>> \o Zeros(pyNat(pyRshift(k, 3)))
                       \o length.val)

perform_padding(chunck, input_size) ==
  IF ~(Len(chunck) <= 64) THEN Raise("AssertionError")
  ELSE IF ~(IsNeg(input_size) \/ InRange(input_size, 64)) THEN Raise("AssertionError")
  ELSE LET l == input_size
           k == pyModPow2(pySub(pyInt(440), l), 9)       \* (440 - l) % 512
           length == int_to_bytes(l, 8)
       IN  IF length.exc # "" THEN length
           ELSE Return(chunck \o <<128>> \o Zeros(pyNat(pyRshift(k, 3)))
                       \o length.val)

----------------------------------------------------------------------------
(* sha256.py:78-107: the statements of compute_hash                        *)

\* lines 84-86: the big-endian words of the block
parseWords(block) ==
  SeqOf([wi \in 1..(Len(block) \div 4) |->
           int_from_bytes(SubSeq(block, (wi - 1) * 4 + 1, (wi - 1) * 4 + 4))])

\* line 89: the word appended at index wi (Python indices, from 0)
scheduleWord(ws, wi) ==
  pyModPow2(pyAdd(pyAdd(pyAdd(ssig1(ws[wi - 2 + 1]), ws[wi - 7 + 1]),
                        ssig0(ws[wi - 15 + 1])),
                  ws[wi - 16 + 1]),
            32)

\* line 92: a, b, c, d, e, f, g, h = H[0:]
loadRegs(Hv) ==
  [a |-> Hv[1], b |-> Hv[2], c |-> Hv[3], d |-> Hv[4],
   e |-> Hv[5], f |-> Hv[6], g |-> Hv[7], h |-> Hv[8]]

\* line 95
T1(r, ws, tt) ==
  pyModPow2(pyAdd(pyAdd(pyAdd(pyAdd(r.h, bsig1(r.e)), ch(r.e, r.f, r.g)),
                        K[tt + 1]),
                  ws[tt + 1]),
            32)

\* line 96
T2(r) == pyModPow2(pyAdd(bsig0(r.a), maj(r.a, r.b, r.c)), 32)

\* lines 97-104, given t1 and t2
rotate(r, t1, t2) ==
  [h |-> r.g, g |-> r.f, f |-> r.e,
   e |-> pyModPow2(pyAdd(r.d, t1), 32),
   d |-> r.c, c |-> r.b, b |-> r.a,
   a |-> pyModPow2(pyAdd(t1, t2), 32)]

\* lines 95-104: one pass of the loop over t
roundStep(r, ws, tt) ==
  CHOOSE next \in {rotate(r, t1, t2) : t1 \in {T1(r, ws, tt)}, t2 \in {T2(r)}} : TRUE

regList(r) == <<r.a, r.b, r.c, r.d, r.e, r.f, r.g, r.h>>

\* line 107, for the index i (from 0): H[i] = (x + H[i]) % 2 ** 32
storeWord(Hv, r, i) ==
  [Hv EXCEPT ![i + 1] = pyModPow2(pyAdd(regList(r)[i + 1], Hv[i + 1]), 32)]

----------------------------------------------------------------------------
(* sha256.py:146: the rendering of H                                       *)

HexDigit(d) ==
  <<"0", "1", "2", "3", "4", "5", "6", "7",
    "8", "9", "a", "b", "c", "d", "e", "f">>[d + 1]

\* the n lowest hexadecimal digits of x, most significant first
hexDigits(x, n) ==
  SeqOf([j \in 1..n |->
    LET k == n - j
    IN  HexDigit((Limb(x, (k \div 4) + 1) \div (16 ^ (k % 4))) % 16)])

RECURSIVE stripZeros(_)
stripZeros(s) == IF Len(s) > 1 /\ s[1] = "0" THEN stripZeros(Tail(s)) ELSE s

\* f'{x:x}' for x >= 0: the hexadecimal digits of x with no padding (at
\* least one digit)
format_x(x) == stripZeros(hexDigits(x, 4 * Len(x)))

RECURSIVE joinAll(_, _)
joinAll(ss, i) == IF i > Len(ss) THEN <<>> ELSE ss[i] \o joinAll(ss, i + 1)

\* ''.join(map(lambda h: f'{h:x}', H))
digest(Hv) == joinAll(SeqOf([i \in 1..Len(Hv) |-> format_x(Hv[i])]), 1)

----------------------------------------------------------------------------
(* sha256.py:110-146: main, and the calls of compute_hash it makes         *)
(*                                                                         *)
(* arg is what the run is given: argc = len(sys.argv), isfile =            *)
(* os.path.isfile(file), st_size = os.stat(file).st_size, and the stream   *)
(* that open(file, 'rb') reads, stream_size bytes long.  The byte at       *)
(* offset p of every stream is dataByte(p).  loc holds the locals of main  *)
(* (file_size, nb_chuncks, chunck, the offset i of the next slice, and     *)
(* pos, the offset of the stream) and those of the running call of         *)
(* compute_hash (block, words, the working variables regs, the loop index  *)
(* t, and ret, where main goes on when the call returns).                  *)

One == <<1, 0>>

\* the byte at offset p (a Python integer) of the file
dataByte(p) == (13 + 7 * (Limb(p, 1) % 256)) % 256

\* min(n, x) for a small number n and a Python integer x >= 0
minNat(n, x) ==
  IF pyIsZero(pyRshift(x, LimbBits - 1)) /\ Limb(x, 1) < n THEN Limb(x, 1) ELSE n

\* f.read(size) at offset pos of a stream of stream_size bytes
read(stream_size, pos, size) ==
  LET n == minNat(size, pySub(stream_size, pos))
  IN  SeqOf([i \in 1..n |-> dataByte(pyAdd(pos, pyInt(i - 1)))])

\* the first n bytes of every stream
Message(n) == SeqOf([i \in 1..n |-> dataByte(pyInt(i - 1))])

NoOutput == [stdout |-> <<>>, stderr |-> "", earlier |-> <<>>]

\* no second computation
NoThread == [pc |-> "", arg |-> <<>>, loc |-> <<>>, out |-> <<>>, calls |-> <<>>, switches |-> 0]

NoLocals ==
  [file_size |-> <<0>>, nb_chuncks |-> <<0>>, pos |-> <<0>>, chunck |-> <<>>, i |-> 0,
   block |-> <<>>, words |-> <<>>, regs |-> <<>>, t |-> 0, ret |-> ""]

\* the locals l once compute_hash(block) is called, to go on at ret
call_compute_hash(l, block, ret) == [l EXCEPT !.block = block, !.ret = ret]

\* the locals l once the call has returned
return_compute_hash(l) ==
  [l EXCEPT !.block = <<>>, !.words = <<>>, !.regs = <<>>, !.t = 0, !.ret = ""]

\* line 121: file_size >= 2 ** 64
too_big(file_size) == pyGePow2(file_size, 64)

\* lines 130-132 without the chunk of the remainder (lines 131-132)
nb_chuncks_floor(file_size) == pyNorm(pyRshift(file_size, 9))

\* lines 130-132: the number of chunks of a file of file_size bits
nb_chuncks_of(file_size) ==
  LET whole == pyRshift(file_size, 9)
  IN  pyNorm(IF ~pyIsZero(pyModPow2(file_size, 9))        \* % (64 * 8)
             THEN pyAdd(whole, One) ELSE whole)

\* lines 110-134: from the call of main to the first read, to the call of
\* compute_hash for the empty file, or to the exit
Start ==
  /\ pc = "start"
  /\ IF arg.argc # 2
     THEN /\ pc' = "exit(0)"
          /\ out' = [out EXCEPT !.stderr = "usage"]
          /\ UNCHANGED <<loc, calls>>
     ELSE IF ~arg.isfile
     THEN /\ pc' = "exit(0)"
          /\ out' = [out EXCEPT !.stderr = "could not be found"]
          /\ UNCHANGED <<loc, calls>>
     ELSE LET file_size == pyNorm(pyLshift(arg.st_size, 3))      \* st_size * 8
          IN  IF too_big(file_size)
              THEN /\ pc' = "exit(0)"
                   /\ out' = [out EXCEPT !.stderr = "is too big"]
                   /\ loc' = [loc EXCEPT !.file_size = file_size]
                   /\ calls' = calls
              ELSE IF pyIsZero(file_size)
              THEN \E block \in {perform_padding(<<>>, file_size)} :
                     IF block.exc # ""
                     THEN /\ pc' = "raised"
                          /\ out' = [out EXCEPT !.stderr = block.exc]
                          /\ loc' = [loc EXCEPT !.file_size = file_size]
                          /\ calls' = calls
                     ELSE /\ pc' = "compute_hash"
                          /\ loc' = call_compute_hash(
                                      [loc EXCEPT !.file_size = file_size],
                                      block.val, "return")
                          /\ calls' = Append(calls, block.val)
                          /\ out' = out
              ELSE /\ pc' = "loop"
                   /\ loc' = [loc EXCEPT !.file_size = file_size,
                                         !.nb_chuncks = nb_chuncks_of(file_size)]
                   /\ UNCHANGED <<calls, out>>
  /\ UNCHANGED <<H, arg, th>>

\* lines 135-138: the read at the head of the while loop, and the padding
ReadChunk ==
  /\ pc = "loop"
  /\ \E chunck \in {read(arg.stream_size, loc.pos, BLOCK_SIZE_BYTE)} :
       IF Len(chunck) = 0
       THEN /\ pc' = "return"
            /\ UNCHANGED <<loc, out>>
       ELSE \E padded \in {IF pyEq(loc.nb_chuncks, One)
                           THEN perform_padding(chunck, loc.file_size)
                           ELSE Return(chunck)} :
              /\ loc' = [loc EXCEPT
                           !.pos = pyNorm(pyAdd(loc.pos, pyInt(Len(chunck)))),
                           !.chunck = padded.val,
                           !.i = 0]
              /\ IF padded.exc # ""
                 THEN /\ pc' = "raised"
                      /\ out' = [out EXCEPT !.stderr = padded.exc]
                 ELSE /\ pc' = "slices"
                      /\ out' = out
  /\ UNCHANGED <<H, arg, calls, th>>

\* lines 141-144: the next slice of the chunk goes to compute_hash; after
\* the last, nb_chuncks -= 1 and the loop reads again
NextSlice ==
  /\ pc = "slices"
  /\ IF loc.i < Len(loc.chunck)
     THEN LET last == IF loc.i + BLOCK_SIZE_BYTE <= Len(loc.chunck)
                      THEN loc.i + BLOCK_SIZE_BYTE ELSE Len(loc.chunck)
              block == SubSeq(loc.chunck, loc.i + 1, last)
          IN  /\ pc' = "compute_hash"
              /\ loc' = call_compute_hash([loc EXCEPT !.i = loc.i + BLOCK_SIZE_BYTE],
                                          block, "slices")
              /\ calls' = Append(calls, block)
     ELSE /\ pc' = "loop"
          /\ loc' = [loc EXCEPT !.nb_chuncks = pyNorm(pySub(loc.nb_chuncks, One)),
                                !.chunck = <<>>, !.i = 0]
          /\ calls' = calls
  /\ UNCHANGED <<H, arg, out, th>>

\* lines 79-86: the assertion, and the sixteen words of the block
Parse ==
  /\ pc = "compute_hash"
  /\ IF Len(loc.block) # BLOCK_SIZE_BYTE
     THEN /\ pc' = "raised"
          /\ out' = [out EXCEPT !.stderr = "AssertionError"]
          /\ loc' = loc
     ELSE /\ pc' = "extend"
          /\ loc' = [loc EXCEPT !.words = parseWords(loc.block), !.t = 16]
          /\ out' = out
  /\ UNCHANGED <<H, arg, calls, th>>

\* lines 88-90: one pass of the loop over wi
Extend ==
  /\ pc = "extend"
  /\ loc' = [loc EXCEPT !.words = Append(loc.words, scheduleWord(loc.words, loc.t)),
                        !.t = loc.t + 1]
  /\ pc' = IF loc.t + 1 < BLOCK_SIZE_BYTE THEN "extend" ELSE "load"
  /\ UNCHANGED <<H, arg, out, calls, th>>

\* line 92
Load ==
  /\ pc = "load"
  /\ loc' = [loc EXCEPT !.regs = loadRegs(H), !.t = 0]
  /\ pc' = "rounds"
  /\ UNCHANGED <<H, arg, out, calls, th>>

\* lines 94-104: one pass of the loop over t
Round ==
  /\ pc = "rounds"
  /\ loc' = [loc EXCEPT !.regs = roundStep(loc.regs, loc.words, loc.t),
                        !.t = IF loc.t + 1 < BLOCK_SIZE_BYTE THEN loc.t + 1 ELSE 0]
  /\ pc' = IF loc.t + 1 < BLOCK_SIZE_BYTE THEN "rounds" ELSE "store"
  /\ UNCHANGED <<H, arg, out, calls, th>>

\* lines 106-107: one pass of the loop over i; after the last, the call
\* returns
Store ==
  /\ pc = "store"
  /\ LET i == loc.t
     IN  /\ H' = storeWord(H, loc.regs, i)
         /\ IF i + 1 < 8
            THEN /\ pc' = "store"
                 /\ loc' = [loc EXCEPT !.t = i + 1]
            ELSE /\ pc' = loc.ret
                 /\ loc' = return_compute_hash(loc)
  /\ UNCHANGED <<arg, out, calls, th>>

\* line 146 (and line 149, which prints what main returns)
Finish ==
  /\ pc = "return"
  /\ pc' = "done"
  /\ out' = [out EXCEPT !.stdout = digest(H)]
  /\ UNCHANGED <<H, arg, loc, calls, th>>

----------------------------------------------------------------------------
(* The block driver on files read in full: st_size bytes are there to read *)

MaxFileBytes == 130

FileArg(n, m) ==
  [argc |-> 2, isfile |-> TRUE, st_size |-> pyInt(n), stream_size |-> pyInt(m)]

InitMain ==
  /\ H = H_init
  /\ pc = "start"
  /\ \E n \in 0..MaxFileBytes : arg = FileArg(n, n)
  /\ loc = NoLocals
  /\ out = NoOutput
  /\ calls = <<>>
  /\ th = NoThread

NextMain ==
  \/ Start \/ ReadChunk \/ NextSlice
  \/ Parse \/ Extend \/ Load \/ Round \/ Store
  \/ Finish

SpecMain == InitMain /\ [][NextMain]_vars

----------------------------------------------------------------------------
(* perform_padding alone, on every chunk and length of a bounded set       *)
(* (SpecPad).  arg holds the two arguments; the call is the statement of   *)
(* line 138, chunck = perform_padding(chunck, file_size).                  *)

\* 2 ** w
pyPow2(w) == pyNorm(pyLshift(One, w))

Pad ==
  /\ pc = "perform_padding"
  /\ \E padded \in {perform_padding(arg.chunck, arg.input_size)} :
       /\ loc' = [loc EXCEPT !.chunck = padded.val]
       /\ IF padded.exc # ""
          THEN /\ pc' = "raised"
               /\ out' = [out EXCEPT !.stderr = padded.exc]
          ELSE /\ pc' = "returned"
               /\ out' = out
  /\ UNCHANGED <<H, arg, calls, th>>

MaxChunk == 65
MaxPadBits == 520
MaxBelow == 9

PadArg(c, l) == [chunck |-> Message(c), input_size |-> l]

\* lengths in bits: the small ones, and those from 2^64 - MaxBelow to 2^64
PadSizes ==
  {pyInt(b) : b \in 0..MaxPadBits}
    \cup {pyNorm(pySub(pyPow2(64), pyInt(d))) : d \in 0..MaxBelow}

InitPad ==
  /\ H = H_init
  /\ pc = "perform_padding"
  /\ \E c \in 0..MaxChunk : \E l \in PadSizes : arg = PadArg(c, l)
  /\ loc = NoLocals
  /\ out = NoOutput
  /\ calls = <<>>
  /\ th = NoThread

NextPad == Pad

SpecPad == InitPad /\ [][NextPad]_vars

----------------------------------------------------------------------------
(* Runs of main on any command line, and on streams that do not hold the   *)
(* st_size bytes that os.stat measured (SpecStream)                        *)

MaxStreamBlocks == 1

\* sizes in bytes: at, just after and just before the multiples of 64
StreamSizes == {64 * q + r : q \in 0..MaxStreamBlocks, r \in {0, 1, 63}}

InitStream ==
  /\ H = H_init
  /\ pc = "start"
  /\ \/ \E n \in StreamSizes, m \in StreamSizes : arg = FileArg(n, m)
     \/ \E argc \in {1, 3} : arg = [FileArg(0, 0) EXCEPT !.argc = argc]
     \/ arg = [FileArg(0, 0) EXCEPT !.isfile = FALSE]
     \/ arg = [FileArg(0, 0) EXCEPT !.st_size = pyPow2(61), !.stream_size = pyPow2(61)]
  /\ loc = NoLocals
  /\ out = NoOutput
  /\ calls = <<>>
  /\ th = NoThread

SpecStream == InitStream /\ [][NextMain]_vars

----------------------------------------------------------------------------
(* main called again in the same process: the module, and H with it, is    *)
(* loaded once (SpecReuse).  out.earlier keeps what the earlier calls were *)
(* given and what they returned.                                           *)

MaxReuseBytes == 1
MaxRuns == 2

Again ==
  /\ pc = "done"
  /\ Len(out.earlier) + 1 < MaxRuns
  /\ \E n \in 0..MaxReuseBytes : arg' = FileArg(n, n)
  /\ pc' = "start"
  /\ loc' = NoLocals
  /\ calls' = <<>>
  /\ out' = [NoOutput EXCEPT
               !.earlier = Append(out.earlier, [arg |-> arg, stdout |-> out.stdout])]
  /\ UNCHANGED <<H, th>>

InitReuse ==
  /\ H = H_init
  /\ pc = "start"
  /\ \E n \in 0..MaxReuseBytes : arg = FileArg(n, n)
  /\ loc = NoLocals
  /\ out = NoOutput
  /\ calls = <<>>
  /\ th = NoThread

NextReuse == NextMain \/ Again

SpecReuse == InitReuse /\ [][NextReuse]_vars

----------------------------------------------------------------------------
(* Two calls of main in one process, on two threads (SpecConc).  One       *)
(* runs; th holds the other, suspended: its position, arguments, locals,   *)
(* output and calls.  H is the module's, and there is one.  The            *)
(* interpreter may switch threads between any two bytecodes; the switches  *)
(* taken here are those before a call of compute_hash, before line 92      *)
(* reads H, before each write of line 107, and at the end of a thread.     *)

MaxConcBytes == 1
MaxSwitches == 2

SwitchPoints == {"compute_hash", "load", "store", "done"}

Switch ==
  /\ pc \in SwitchPoints
  /\ th.pc \notin {"", "done"}
  /\ pc = "done" \/ th.switches < MaxSwitches
  /\ pc' = th.pc
  /\ arg' = th.arg
  /\ loc' = th.loc
  /\ out' = th.out
  /\ calls' = th.calls
  /\ th' = [pc |-> pc, arg |-> arg, loc |-> loc, out |-> out, calls |-> calls,
            switches |-> IF pc = "done" THEN th.switches ELSE th.switches + 1]
  /\ H' = H

InitConc ==
  /\ H = H_init
  /\ pc = "start"
  /\ \E n \in 0..MaxConcBytes : arg = FileArg(n, n)
  /\ loc = NoLocals
  /\ out = NoOutput
  /\ calls = <<>>
  /\ \E n \in 0..MaxConcBytes :
       th = [pc |-> "start", arg |-> FileArg(n, n), loc |-> NoLocals,
             out |-> NoOutput, calls |-> <<>>, switches |-> 0]

NextConc == NextMain \/ Switch

SpecConc == InitConc /\ [][NextConc]_vars

----------------------------------------------------------------------------
(* main on the largest files, and perform_padding on the largest lengths   *)
(* (SpecLimit).  A file of about 2^61 bytes takes about 2^55 passes of the *)
(* loop of line 135.  All the passes but the last are one step here: they  *)
(* read whole chunks, pad nothing (nb_chuncks is not 1), and leave in H a  *)
(* value this model does not compute: any of SomeStates.  calls keeps the  *)
(* blocks of the last pass only.                                           *)

MaxAbove == 2

AllWordsOf(lo, hi) == SeqOf([i \in 1..8 |-> <<lo, hi, 0>>])

SomeStates == {H_init, AllWordsOf(0, 0), AllWordsOf(Base - 1, Base - 1)}

EarlierPasses ==
  /\ pc = "loop"
  /\ pyIsZero(loc.pos)
  /\ pyGePow2(loc.nb_chuncks, 32)
  /\ pyGePow2(arg.stream_size, 32)
  /\ loc' = [loc EXCEPT !.pos = pyNorm(pyLshift(pySub(loc.nb_chuncks, One), 6)),
                        !.nb_chuncks = One]
  /\ H' \in SomeStates
  /\ UNCHANGED <<pc, arg, out, calls, th>>

\* the read of line 135 once the earlier passes are over
LastPasses ==
  /\ InRange(loc.nb_chuncks, 1)
  /\ ReadChunk

InitLimit ==
  /\ H = H_init
  /\ \/ /\ pc = "start"
        /\ \/ \E d \in 1..MaxBelow :
                \E s \in {pyNorm(pySub(pyPow2(61), pyInt(d)))} :
                  arg = [FileArg(0, 0) EXCEPT !.st_size = s, !.stream_size = s]
           \/ \E d \in 0..MaxAbove :
                \E s \in {pyNorm(pyAdd(pyPow2(61), pyInt(d)))} :
                  arg = [FileArg(0, 0) EXCEPT !.st_size = s, !.stream_size = s]
     \/ /\ pc = "perform_padding"
        /\ \E c \in 0..MaxChunk :
             \/ \E d \in 0..MaxBelow :
                  arg = PadArg(c, pyNorm(pySub(pyPow2(64), pyInt(d))))
             \/ \E d \in 0..MaxAbove :
                  arg = PadArg(c, pyNorm(pyAdd(pyPow2(64), pyInt(d))))
  /\ loc = NoLocals
  /\ out = NoOutput
  /\ calls = <<>>
  /\ th = NoThread

NextLimit ==
  \/ Start \/ EarlierPasses \/ LastPasses \/ NextSlice
  \/ Parse \/ Extend \/ Load \/ Round \/ Store
  \/ Finish
  \/ Pad

SpecLimit == InitLimit /\ [][NextLimit]_vars

----------------------------------------------------------------------------
(* What main passes to compute_hash (SpecMain)                             *)

\* the eight bytes, most significant first, of a number v < 2^31
BigEndian8(v) ==
  SeqOf([j \in 1..8 |-> IF j <= 4 THEN 0 ELSE (v \div (256 ^ (8 - j))) % 256])

\* the least number z of zero bytes with n + 1 + z + 8 a multiple of 64
ZeroFill(n) == (64 * (n + 1) + 55 - n) % 64

\* M ++ 0x80 ++ zeros ++ 8-byte big-endian(8n) for the file M of n bytes
PaddedMessage(n) ==
  Message(n) \o <<128>> \o Zeros(ZeroFill(n)) \o BigEndian8(8 * n)

\* the consecutive 64-byte slices of s
Slices(s) ==
  SeqOf([i \in 1..(Len(s) \div 64) |-> SubSeq(s, 64 * (i - 1) + 1, 64 * i)])

\* the number of bytes the run was given (st_size)
FileBytes == pyNat(arg.st_size)

\* C1: for a file of n bytes whose stream delivers exactly those n bytes,
\* the blocks main passes to compute_hash are at every moment the first
\* slices, in order, of the padded message M ++ 0x80 ++ zeros ++ 8-byte
\* big-endian(8n), and when main returns they are all of them; no run ends
\* in an error, and the empty file gives exactly one block.
C1_BlocksArePaddedSlices ==
  LET want == Slices(PaddedMessage(FileBytes))
  IN  /\ Len(PaddedMessage(FileBytes)) % 64 = 0
      /\ Len(calls) <= Len(want)
      /\ calls = SubSeq(want, 1, Len(calls))
      /\ pc \notin {"exit(0)", "raised"}
      /\ pc = "done" => calls = want
      /\ (pc = "done" /\ FileBytes = 0) => Len(calls) = 1

\* C1 witness: main has returned on a file of one whole chunk and a last
\* chunk so long that its padding spills into one more block.
C1_Witness ==
  /\ pc = "done"
  /\ FileBytes = 64 + 60
  /\ Len(calls) = 3

\* the SHA-256 digests of the files of 0, 1 and 2 bytes:
\* e3b0c44298fc1c149afbf4c8996fb92427ae41e4649b934ca495991b7852b855,
\* 9d1e0e2d9459d06523ad13e28a4093c2316baafe7aec5b25f30eba2e113599c4,
\* 2f3be435f659b303d0a05914eccd8dbdbda25438ae0fc0e99af38e4a9dc63797
AloneDigests ==
  <<
    << "e", "3", "b", "0", "c", "4", "4", "2", "9", "8", "f", "c", "1", "c", "1", "4",
       "9", "a", "f", "b", "f", "4", "c", "8", "9", "9", "6", "f", "b", "9", "2", "4",
       "2", "7", "a", "e", "4", "1", "e", "4", "6", "4", "9", "b", "9", "3", "4", "c",
       "a", "4", "9", "5", "9", "9", "1", "b", "7", "8", "5", "2", "b", "8", "5", "5" >>,
    << "9", "d", "1", "e", "0", "e", "2", "d", "9", "4", "5", "9", "d", "0", "6", "5",
       "2", "3", "a", "d", "1", "3", "e", "2", "8", "a", "4", "0", "9", "3", "c", "2",
       "3", "1", "6", "b", "a", "a", "f", "e", "7", "a", "e", "c", "5", "b", "2", "5",
       "f", "3", "0", "e", "b", "a", "2", "e", "1", "1", "3", "5", "9", "9", "c", "4" >>,
    << "2", "f", "3", "b", "e", "4", "3", "5", "f", "6", "5", "9", "b", "3", "0", "3",
       "d", "0", "a", "0", "5", "9", "1", "4", "e", "c", "c", "d", "8", "d", "b", "d",
       "b", "d", "a", "2", "5", "4", "3", "8", "a", "e", "0", "f", "c", "0", "e", "9",
       "9", "a", "f", "3", "8", "e", "4", "a", "9", "d", "c", "6", "3", "7", "9", "7" >>
  >>

\* run alone from the initial value of H, main returns these digests
AloneDigestsAreMain ==
  (pc = "done" /\ FileBytes < Len(AloneDigests)) =>
     out.stdout = AloneDigests[FileBytes + 1]

\* the digest of the empty message: 64 characters
EmptyDigest == AloneDigests[1]

\* the same text without its last character: 63 characters
EmptyDigestShort == SubSeq(EmptyDigest, 1, 63)

\* C9 as stated: for the empty message main returns the 63 characters
\* e3b0c442 98fc1c14 9afbf4c8 996fb924 27ae41e4 649b934c a495991b 7852b85.
C9_AsStated ==
  (pc = "done" /\ FileBytes = 0) => out.stdout = EmptyDigestShort

\* C9: for the empty message main makes one call of compute_hash, on the
\* block 0x80, 55 zero bytes and the length 0, from the initial value of H,
\* and returns the 64 characters
\* e3b0c442 98fc1c14 9afbf4c8 996fb924 27ae41e4 649b934c a495991b 7852b855.
C9_EmptyDigest ==
  (pc = "done" /\ FileBytes = 0) =>
     /\ calls = << <<128>> \o Zeros(63) >>
     /\ out.stdout = EmptyDigest
     /\ Len(out.stdout) = 64

\* C9 witness: main has returned on the empty file.
C9_Witness ==
  /\ pc = "done"
  /\ FileBytes = 0
  /\ Len(out.stdout) > 0

\* x is a word: 0 <= x < 2^32
IsWord(x) == InRange(x, 32)

AllWords(s) == \A i \in 1..Len(s) : IsWord(s[i])

\* C10: every word of H is in [0, 2^32) at every moment of every sequence
\* of calls of compute_hash, and within a call so are the words W[t], the
\* working variables a..h, T1 and T2 of the round about to run, and the
\* results of rotr, ch, maj, bsig0, bsig1, ssig0 and ssig1 on the words they
\* are applied to.
C10_WordsInRange ==
  /\ AllWords(H)
  /\ AllWords(loc.words)
  /\ pc = "extend" =>
       /\ IsWord(ssig1(loc.words[loc.t - 2 + 1]))
       /\ IsWord(ssig0(loc.words[loc.t - 15 + 1]))
       /\ \A n \in {7, 18} : IsWord(rotr(loc.words[loc.t - 15 + 1], n))
       /\ \A n \in {17, 19} : IsWord(rotr(loc.words[loc.t - 2 + 1], n))
  /\ pc \in {"rounds", "store"} =>
       /\ AllWords(regList(loc.regs))
  /\ pc = "rounds" =>
       /\ IsWord(T1(loc.regs, loc.words, loc.t))
       /\ IsWord(T2(loc.regs))
       /\ IsWord(ch(loc.regs.e, loc.regs.f, loc.regs.g))
       /\ IsWord(maj(loc.regs.a, loc.regs.b, loc.regs.c))
       /\ IsWord(bsig0(loc.regs.a))
       /\ IsWord(bsig1(loc.regs.e))
       /\ \A n \in {2, 13, 22} : IsWord(rotr(loc.regs.a, n))
       /\ \A n \in {6, 11, 25} : IsWord(rotr(loc.regs.e, n))

\* C10 witness: a second call of compute_hash is in its last round, with a
\* sum h + bsig1(e) + ch(e, f, g) + K[t] + W[t] that exceeds 2^32 before
\* the reduction.
C10_Witness ==
  /\ pc = "rounds"
  /\ loc.t = 63
  /\ Len(calls) = 2
  /\ pyGePow2(pyAdd(pyAdd(pyAdd(pyAdd(loc.regs.h, bsig1(loc.regs.e)),
                                ch(loc.regs.e, loc.regs.f, loc.regs.g)),
                          K[loc.t + 1]),
                    loc.words[loc.t + 1]),
              32)

\* C4: the digest main returns renders each of the eight words as exactly
\* eight hexadecimal digits, 64 characters in all.
C4_SixtyFourCharacters ==
  pc = "done" => Len(out.stdout) = 64

\* C4, where it fails: a returned digest with a word below 2^28.
C4_ShortWord ==
  /\ pc = "done"
  /\ \E i \in 1..8 : InRange(H[i], 28)
  /\ Len(out.stdout) < 64

----------------------------------------------------------------------------
(* perform_padding (SpecPad)                                               *)

\* the call is over, and its arguments were a chunk of at most 64 bytes
\* and a length 0 <= L < 2^64
PadCalled ==
  /\ pc \in {"returned", "raised"}
  /\ "input_size" \in DOMAIN arg
  /\ Len(arg.chunck) <= 64
  /\ InRange(arg.input_size, 64)

\* the last eight bytes of s, decoded big-endian
Trailing8(s) == int_from_bytes(SubSeq(s, Len(s) - 7, Len(s)))

\* C2: for every chunk of at most 64 bytes and every L < 2^64,
\* perform_padding returns a positive multiple of 64 bytes whose last
\* eight bytes decode, big-endian, to L.
C2_AsStated ==
  PadCalled =>
    /\ pc = "returned"
    /\ Len(loc.chunck) > 0
    /\ Len(loc.chunck) % 64 = 0
    /\ pyEq(Trailing8(loc.chunck), arg.input_size)

\* C2, what the code does on the same arguments: the last eight bytes
\* decode to L, but the length is c + 9 + (((440 - L) % 512) >> 3), a
\* multiple of 64 only when c is, modulo 64, the number of bytes that
\* L % 512 bits take.
C2_LengthFollowsL ==
  PadCalled =>
    LET c == Len(arg.chunck)
        r == pyNat(pyModPow2(arg.input_size, 9))
    IN  /\ pc = "returned"
        /\ SubSeq(loc.chunck, 1, c + 1) = arg.chunck \o <<128>>
        /\ pyEq(Trailing8(loc.chunck), arg.input_size)
        /\ Len(loc.chunck) % 64 = 0 <=> (64 + c - ((r + 7) \div 8)) % 64 = 0

\* C2, where it fails: the empty chunk with L = 8 gives 63 bytes.
C2_NotWholeBlocks ==
  /\ pc = "returned"
  /\ arg.chunck = <<>>
  /\ pyEq(arg.input_size, pyInt(8))
  /\ Len(loc.chunck) = 63

\* L is the length in bits of a message that ends with the chunk
Matching ==
  /\ pyNat(pyModPow2(arg.input_size, 9)) = 8 * (Len(arg.chunck) % 64)
  /\ Len(arg.chunck) > 0 => ~pyIsZero(arg.input_size)

\* the two blocks of a result of 128 bytes
FirstBlock == SubSeq(loc.chunck, 1, 64)
SecondBlock == SubSeq(loc.chunck, 65, 128)

\* C3 as stated: whenever c + 9 > 64, with L matching, perform_padding
\* returns exactly two blocks, the first data + marker + zero-fill, the
\* second all-zero except its trailing length field.
C3_AsStated ==
  (PadCalled /\ Matching /\ Len(arg.chunck) + 9 > 64) =>
    /\ pc = "returned"
    /\ Len(loc.chunck) = 128
    /\ FirstBlock = arg.chunck \o <<128>> \o Zeros(63 - Len(arg.chunck))
    /\ SubSeq(SecondBlock, 1, 56) = Zeros(56)
    /\ pyEq(Trailing8(SecondBlock), arg.input_size)

\* C3: whenever c + 9 > 64, with L matching, perform_padding returns
\* exactly two blocks.  For c from 56 to 63 the first is data + marker +
\* zero-fill and the second all-zero except its trailing length field; for
\* c = 64 the first is the data alone, and the second is the marker, 55
\* zero bytes and the length field.
C3_TwoBlocks ==
  (PadCalled /\ Matching /\ Len(arg.chunck) + 9 > 64) =>
    /\ pc = "returned"
    /\ Len(loc.chunck) = 128
    /\ pyEq(Trailing8(SecondBlock), arg.input_size)
    /\ Len(arg.chunck) < 64 =>
         /\ FirstBlock = arg.chunck \o <<128>> \o Zeros(63 - Len(arg.chunck))
         /\ SubSeq(SecondBlock, 1, 56) = Zeros(56)
    /\ Len(arg.chunck) = 64 =>
         /\ FirstBlock = arg.chunck
         /\ SubSeq(SecondBlock, 1, 56) = <<128>> \o Zeros(55)

\* C3 witness: a last chunk of 64 bytes, of a message of 64 bytes, has been
\* padded to two blocks, the marker at the head of the second.
C3_Witness ==
  /\ pc = "returned"
  /\ Len(arg.chunck) = 64
  /\ pyEq(arg.input_size, pyInt(512))
  /\ Len(loc.chunck) = 128
  /\ loc.chunck[65] = 128

----------------------------------------------------------------------------
(* main called again (SpecReuse)                                           *)

\* C5: every computation starts from the initial value of H, and the
\* digest main returns for a file is the one any earlier call of main in
\* the same process returned for the same file.
C5_AsStated ==
  pc = "done" =>
    \A i \in 1..Len(out.earlier) :
      out.earlier[i].arg = arg => out.earlier[i].stdout = out.stdout

\* C5, where it fails: the second call of main, on the empty file again,
\* has returned another digest than the first.
C5_SecondDigestDiffers ==
  /\ pc = "done"
  /\ Len(out.earlier) = 1
  /\ out.earlier[1].arg = arg
  /\ FileBytes = 0
  /\ out.earlier[1].stdout = EmptyDigest
  /\ out.stdout # EmptyDigest

----------------------------------------------------------------------------
(* Two threads (SpecConc)                                                  *)

\* C6: of two computations whose calls of compute_hash interleave, each
\* ends with the value of H, and so returns the digest, that it reaches
\* when run alone.
C6_AsStated ==
  pc = "done" => out.stdout = AloneDigests[FileBytes + 1]

\* C6, where it fails: the two threads have taken turns, both have
\* returned, and neither digest is the one of its file.
C6_Interleaved ==
  /\ pc = "done"
  /\ th.pc = "done"
  /\ th.switches = MaxSwitches
  /\ out.stdout # AloneDigests[FileBytes + 1]
  /\ th.out.stdout # AloneDigests[pyNat(th.arg.st_size) + 1]

----------------------------------------------------------------------------
(* Streams that differ from what os.stat measured (SpecStream)             *)

\* the run is one C7 says emits no digest: a usage error, no file, a file
\* too big, or a stream shorter or longer than st_size
ErrorRun ==
  \/ arg.argc # 2
  \/ ~arg.isfile
  \/ pyGePow2(arg.st_size, 61)
  \/ ~pyEq(arg.stream_size, arg.st_size)

\* C7: main emits a digest only when all the st_size bytes were read and
\* the padded final block was compressed, and emits none in a run that ends
\* in a usage error, no file, a file too big or a stream shorter or longer
\* than st_size.
C7_AsStated ==
  /\ out.stdout # <<>> =>
       LET want == Slices(PaddedMessage(FileBytes))
       IN  /\ FileBytes > 0 => pyEq(loc.pos, arg.st_size)
           /\ Len(calls) > 0
           /\ calls[Len(calls)] = want[Len(want)]
  /\ ErrorRun => out.stdout = <<>>

\* C7, where it fails: os.stat measured 64 bytes, the stream held none, and
\* main returned a digest with no call of compute_hash at all.
C7_DigestOfNothing ==
  /\ pc = "done"
  /\ FileBytes = 64
  /\ pyIsZero(arg.stream_size)
  /\ calls = <<>>
  /\ out.stdout = digest(H_init)

----------------------------------------------------------------------------
(* The largest inputs (SpecLimit)                                          *)

IsMainRun == "argc" \in DOMAIN arg

\* C8: an input of exactly 2^64 - 1 bits is accepted and hashed (its
\* padding is whole 64-byte blocks, and no assertion fails), and an input
\* of 2^64 bits is rejected by the size check of main and by the
\* precondition of perform_padding.
C8_AsStated ==
  /\ (PadCalled /\ pyEq(arg.input_size, pySub(pyPow2(64), One))) =>
       /\ pc = "returned"
       /\ Len(loc.chunck) % 64 = 0
  /\ (~IsMainRun /\ pc # "perform_padding" /\ Len(arg.chunck) <= 64
        /\ pyEq(arg.input_size, pyPow2(64))) =>
       /\ pc = "raised"
       /\ out.stderr = "AssertionError"
  /\ (IsMainRun /\ pc # "start" /\ pyEq(arg.st_size, pyPow2(61))) =>
       /\ pc = "exit(0)"
       /\ out.stderr = "is too big"
       /\ calls = <<>>
  /\ (IsMainRun /\ ~pyGePow2(arg.st_size, 61)) =>
       /\ pc \notin {"exit(0)", "raised"}
       /\ \A i \in 1..Len(calls) : Len(calls[i]) = 64

\* C8, where it fails: a last chunk of 63 bytes with L = 2^64 - 1 is
\* padded to 127 bytes.
C8_NotWholeBlocks ==
  /\ pc = "returned"
  /\ ~IsMainRun
  /\ Len(arg.chunck) = 63
  /\ pyEq(arg.input_size, pySub(pyPow2(64), One))
  /\ Len(loc.chunck) = 127

\* C8, what main does at the limit: the largest file it accepts has
\* 2^61 - 1 bytes, 2^64 - 8 bits; the last chunk, of 63 bytes, is padded to
\* two blocks and main returns; a file of 2^61 bytes or more is rejected.
C8_ByteBoundary ==
  IsMainRun =>
    /\ pyGePow2(arg.st_size, 61) =>
         /\ pc \in {"start", "exit(0)"}
         /\ calls = <<>>
    /\ ~pyGePow2(arg.st_size, 61) =>
         /\ pc \notin {"exit(0)", "raised"}
         /\ pyIsZero(pyModPow2(loc.file_size, 3))
         /\ \A i \in 1..Len(calls) : Len(calls[i]) = 64
         /\ pc = "done" =>
              /\ pyEq(loc.pos, arg.st_size)
              /\ pyEq(Trailing8(calls[Len(calls)]), loc.file_size)
====
